---- MODULE Spec2Model ----
(***************************************************************************)
(* The local JSONL storage engine of pxt-telemetry (src/storage/jsonl.js): *)
(* date-sharded append log with size rotation, a per-path polling write    *)
(* lock and a range scan.                                                  *)
(*                                                                         *)
(* Time is counted in units of 1/UnitsPerDay of a day since the instant    *)
(* 2024-05-01T00:00:00Z; the process timezone is tz units east of UTC.     *)
(* A file is a sequence of bytes; the JSON text of one statement is one    *)
(* byte-unit <<"json", id, timestamp>> and a newline is the unit NL.       *)
(* Node runs one macrotask at a time, so every action below is one         *)
(* callback (with the microtasks it schedules) or one file-system          *)
(* operation of the libuv thread pool.                                     *)
(***************************************************************************)
EXTENDS Integers, Sequences, FiniteSets, TLC

\* ------------------------------------------------------------- bounds
NumCalls == 2
NumWriters == 3
MaxBatch == 2
MaxInstant == 2
UnitsPerDay == 2
MaxShortWrites == 1
MaxMillis == 1
MaxUUIDHead == 1
MaxUUIDTail == 1
MaxFailures == 1

\* ------------------------------------------------- program constants
MaxStatements == 100
MaxFileSize == 2
PadWidth == 3
PatternDigits == 3

Calls == 1..NumCalls
Instants == 0..MaxInstant
TZOffsets == 0..(UnitsPerDay - 1)
NoTimestamp == 0 - 1
Undefined == 0 - 1
NoPath == << >>
NL == <<"nl", <<0, 0>>, 0>>
Extension == <<46, 106, 115, 111, 110, 108>>
Dash == <<45>>

VARIABLES
    tz,          \* process timezone offset, fixed at start
    dirs,        \* directories that exist
    files,       \* path -> content (sequence of bytes), for the files that exist
    writeLocks,  \* the paths the lock table holds
    call,        \* call id -> the state of that append call
    scan,        \* the last readStatementsInRange call and what it yielded
    stats,       \* the last getDateStats call and what it returned
    bucket,      \* the GCS bucket: object name -> content
    lockLog,     \* history: path -> <<call, group>> in lock acquisition order
    arrival,     \* history: the blocks wholly written, in the order they reached disk
    res,         \* the GET /statements response in progress
    cfg,         \* the configuration of the legacy ingestion, fixed at start
    guard        \* the last guardInlineCode call: its argument and what it returned

vars == <<tz, dirs, files, writeLocks, call, scan, stats, bucket, lockLog, arrival, res,
         cfg, guard>>

\* ------------------------------------------------------------ helpers
Max(S) == CHOOSE x \in S : \A y \in S : y <= x

Range(s) == {s[i] : i \in 1..Len(s)}

RECURSIVE toString(_)
\* Number.prototype.toString(): the decimal digits as code units
toString(n) == IF n < 10 THEN <<48 + n>> ELSE toString(n \div 10) \o <<48 + (n % 10)>>

RECURSIVE padStart(_, _)
\* String.prototype.padStart(w, "0")
padStart(s, w) == IF Len(s) >= w THEN s ELSE padStart(<<48>> \o s, w)

IsDigit(ch) == ch >= 48 /\ ch <= 57

RECURSIVE parseInt(_)
\* parseInt(s, 10) of a string of digits
parseInt(s) ==
    IF Len(s) = 0 THEN 0
    ELSE 10 * parseInt(SubSeq(s, 1, Len(s) - 1)) + (s[Len(s)] - 48)

RECURSIVE LexLess(_, _)
\* a < b for strings: by UTF-16 code units, a proper prefix first
LexLess(a, b) ==
    IF Len(b) = 0 THEN FALSE
    ELSE IF Len(a) = 0 THEN TRUE
    ELSE IF a[1] # b[1] THEN a[1] < b[1]
    ELSE LexLess(Tail(a), Tail(b))

RECURSIVE sort(_)
\* Array.prototype.sort() with the default comparison, of a set of distinct names
sort(S) ==
    IF S = {} THEN << >>
    ELSE LET m == CHOOSE x \in S : \A y \in S \ {x} : LexLess(x, y)
         IN <<m>> \o sort(S \ {m})

RECURSIVE Concat(_)
Concat(ss) == IF Len(ss) = 0 THEN << >> ELSE Head(ss) \o Concat(Tail(ss))

\* --------------------------------------------------------------- dates
LocalDay(t) == (t + tz) \div UnitsPerDay
\* Date.prototype.getFullYear / getMonth / getDate, in the process timezone;
\* every modelled instant falls in May 2024
getFullYear(date) == 2024
getMonth(date) == 4
getDate(date) == 1 + LocalDay(date)
\* toISOString().split("T")[0]: the UTC calendar date, by its day number
toISODate(date) == date \div UnitsPerDay
\* setHours(0, 0, 0, 0): local midnight of the instant's local day
setHoursStart(date) == LocalDay(date) * UnitsPerDay - tz
\* setHours(23, 59, 59, 999): the last instant of the local day
setHoursEnd(date) == (LocalDay(date) + 1) * UnitsPerDay - tz - 1

\* --------------------------------------------------------------- paths
getDateDirectory(date) ==
    <<toString(getFullYear(date)), padStart(toString(getMonth(date) + 1), 2)>>

getDateFilename(date) == padStart(toString(getDate(date)), 2) \o Extension

\* filename.replace(config.extension, "")
StripExtension(filename) == SubSeq(filename, 1, Len(filename) - Len(Extension))

getFilePath(date, rotationIndex) ==
    LET dir == getDateDirectory(date)
        filename == getDateFilename(date)
    IN IF rotationIndex # Undefined /\ rotationIndex > 0
       THEN <<dir, StripExtension(filename) \o Dash
                   \o padStart(toString(rotationIndex), PadWidth) \o Extension>>
       ELSE <<dir, filename>>

\* the capture group (-\d{3})? of ^${baseFilename}(-\d{3})?\.jsonl$ on a match:
\* << >> when the group did not take part, "nomatch" when the name does not match
PatternMatch(file, baseFilename) ==
    LET b == Len(baseFilename)
        e == Len(Extension)
    IN IF file = baseFilename \o Extension THEN << >>
       ELSE IF /\ Len(file) = b + 1 + PatternDigits + e
               /\ SubSeq(file, 1, b) = baseFilename
               /\ file[b + 1] = Dash[1]
               /\ \A i \in (b + 2)..(b + 1 + PatternDigits) : IsDigit(file[i])
               /\ SubSeq(file, b + 2 + PatternDigits, Len(file)) = Extension
            THEN SubSeq(file, b + 1, b + 1 + PatternDigits)
            ELSE <<0>>

PatternTest(file, baseFilename) == PatternMatch(file, baseFilename) # <<0>>

\* fs.readdir(dir)
readdir(dir) == {p[2] : p \in {q \in DOMAIN files : q[1] = dir}}

\* getCurrentRotationIndex without the slice(1): parseInt reads the dash as a sign
getCurrentRotationIndex_NoSlice(date) ==
    LET dir == getDateDirectory(date)
        baseFilename == StripExtension(getDateFilename(date))
        indices == {0 - parseInt(Tail(PatternMatch(f, baseFilename))) :
                        f \in {g \in readdir(dir) :
                                 /\ PatternTest(g, baseFilename)
                                 /\ PatternMatch(g, baseFilename) # << >>}}
    IN IF dir \notin dirs THEN 0 ELSE Max(indices \cup {0})

getCurrentRotationIndex(date) ==
    LET dir == getDateDirectory(date)
        baseFilename == StripExtension(getDateFilename(date))
        indices == {parseInt(Tail(PatternMatch(f, baseFilename))) :
                        f \in {g \in readdir(dir) :
                                 /\ PatternTest(g, baseFilename)
                                 /\ PatternMatch(g, baseFilename) # << >>}}
    IN IF dir \notin dirs THEN 0 ELSE Max(indices \cup {0})

\* needsRotation that rotates whenever the file exists, whatever its size
needsRotation_AnySize(filePath) ==
    IF filePath \notin DOMAIN files THEN FALSE
    ELSE Len(files[filePath]) >= 0

needsRotation(filePath) ==
    IF filePath \notin DOMAIN files THEN FALSE
    ELSE Len(files[filePath]) >= MaxFileSize

\* ------------------------------------------------------- serialization
\* JSON.stringify(statement): the JSON text, as one byte-unit
stringify(s) == <<"json", s.id, s.timestamp>>

RECURSIVE join(_, _)
\* Array.prototype.join(sep) of a list of byte-units
join(lines, sep) ==
    IF Len(lines) = 0 THEN << >>
    ELSE IF Len(lines) = 1 THEN <<lines[1]>>
    ELSE <<lines[1], sep>> \o join(Tail(lines), sep)

\* the lines put together with no separator, then the trailing "\n"
Block_NoSeparator(statements) ==
    [i \in 1..Len(statements) |-> stringify(statements[i])] \o <<NL>>

\* the text one append writes: lines joined by "\n", plus a trailing "\n"
Block(statements) ==
    join([i \in 1..Len(statements) |-> stringify(statements[i])], NL) \o <<NL>>

RECURSIVE split(_, _)
\* String.prototype.split("\n"): the pieces between newlines, `acc` the piece so far
split(content, acc) ==
    IF Len(content) = 0 THEN <<acc>>
    ELSE IF content[1][1] = "nl" THEN <<acc>> \o split(Tail(content), << >>)
    ELSE split(Tail(content), Append(acc, content[1]))

\* a parse that stops after the first JSON text of the line
parse_FirstText(line) ==
    IF Len(line) >= 1 THEN <<[id |-> line[1][2], timestamp |-> line[1][3]]>> ELSE << >>

\* JSON.parse(line): a statement when the line is exactly one JSON text, else null
\* (the empty sequence)
parse(line) ==
    IF Len(line) = 1 THEN <<[id |-> line[1][2], timestamp |-> line[1][3]]>> ELSE << >>

\* readStatements(filePath)
readStatements(filePath) ==
    IF filePath \notin DOMAIN files THEN << >>
    ELSE LET lines == SelectSeq(split(files[filePath], << >>), LAMBDA l : Len(l) > 0)
         IN Concat([i \in 1..Len(lines) |-> parse(lines[i])])

\* ------------------------------------------------- the shards of a date
\* the rotation index a shard's file name carries: the digits between the dash
\* and the extension, 0 for the unsuffixed name
ShardIndex(filePath) ==
    LET name == StripExtension(filePath[2])
    IN IF Len(name) = 2 THEN 0 ELSE parseInt(SubSeq(name, 4, Len(name)))

\* the date partition a shard belongs to: its directory and day
ShardDate(filePath) == <<filePath[1], SubSeq(filePath[2], 1, 2)>>

\* the shard files that exist for the date of an instant
ShardsOf(date) ==
    {p \in DOMAIN files :
        ShardDate(p) = <<getDateDirectory(date), StripExtension(getDateFilename(date))>>}

\* <<index, size>> of the highest-index shard of the date, << >> when it has none
TopShard(date) ==
    LET shards == ShardsOf(date)
        top == Max({ShardIndex(p) : p \in shards})
    IN IF shards = {} THEN << >>
       ELSE <<top, Len(files[CHOOSE p \in shards : ShardIndex(p) = top])>>

\* ------------------------------------------------------------ the lock
\* acquireLock that never waits
lockFree_NoWait(locks, filePath) == TRUE

\* the loop condition of acquireLock: the table holds no entry for the path
lockFree(locks, filePath) == filePath \notin locks

\* releaseLock that clears the whole table
releaseLock_Clear(locks, filePath) == {}

\* releaseLock(filePath): writeLocks.delete(filePath)
releaseLock(locks, filePath) == locks \ {filePath}

\* no release before the next date group is resolved and locked
locksAfterAppend_Keep(locks, filePath, failed) == locks

\* release on the success path only, with no finally
locksAfterAppend_NoFinally(locks, filePath, failed) ==
    IF failed THEN locks ELSE releaseLock(locks, filePath)

\* the lock table after an append's try/catch/finally
locksAfterAppend(locks, filePath, failed) == releaseLock(locks, filePath)

\* ------------------------------------------------------------ the calls
IdleCall ==
    [pc |-> "idle", kind |-> "none", groups |-> << >>, g |-> 0,
     rotationIndex |-> 0, filePath |-> NoPath, pending |-> << >>, shorts |-> 0,
     result |-> << >>, dateArg |-> Undefined, clock |-> Undefined,
     behind |-> {}, body |-> << >>]

InFlight(c) == call[c].pc \notin {"idle", "done"}
Quiescent == \A c \in DOMAIN call : ~InFlight(c)
NoStats == [date |-> Undefined, files |-> {}, totalSize |-> 0]
NoScan == [start |-> Undefined, end |-> Undefined, shards |-> << >>, out |-> << >>]
\* loadConfig() with no environment variable set
DefaultConfig == [maxCodeBytes |-> 524288, truncateInline |-> FALSE, truncateKeepBytes |-> 131072]
NoGuard == [calls |-> 0]
NoRes == [pc |-> "idle", status |-> Undefined, actorId |-> "undefined", source |-> << >>,
          throws |-> FALSE, pulled |-> 0, count |-> 0, lines |-> << >>]

Group(dateKey, date, statements) ==
    [dateKey |-> dateKey, date |-> date, statements |-> statements,
     status |-> "pending", path |-> NoPath, listedAfter |-> 0,
     top |-> << >>, resolvedSize |-> Undefined, openedAfter |-> 0,
     sizeBefore |-> Undefined]

RECURSIVE groupByDate(_, _, _)
\* the byDate Map of appendStatements, in insertion order
groupByDate(statements, byDate, now) ==
    IF Len(statements) = 0 THEN byDate
    ELSE LET statement == Head(statements)
             timestamp == IF statement.timestamp # NoTimestamp
                          THEN statement.timestamp ELSE now
             dateKey == toISODate(timestamp)
             at == {i \in 1..Len(byDate) : byDate[i].dateKey = dateKey}
         IN IF at = {}
            THEN groupByDate(Tail(statements),
                             Append(byDate, Group(dateKey, timestamp, <<statement>>)),
                             now)
            ELSE LET i == CHOOSE j \in at : TRUE
                 IN groupByDate(Tail(statements),
                        [byDate EXCEPT ![i].statements = Append(@, statement)],
                        now)

Init ==
    /\ tz \in TZOffsets
    /\ dirs = {}
    /\ files = [p \in {} |-> << >>]
    /\ writeLocks = {}
    /\ call = [c \in Calls |-> IdleCall]
    /\ scan = NoScan
    /\ res = NoRes
    /\ cfg = DefaultConfig
    /\ guard = NoGuard
    /\ stats = NoStats
    /\ bucket = [n \in {} |-> << >>]
    /\ lockLog = [p \in {} |-> << >>]
    /\ arrival = << >>

\* calls are numbered in the order they are issued
MayStart(c) == call[c].pc = "idle" /\ \A d \in DOMAIN call : d < c => call[d].pc # "idle"

\* the I/O failures so far
Failures ==
    Cardinality({cg \in (DOMAIN call) \X (1..MaxBatch) :
                    /\ cg[2] <= Len(call[cg[1]].groups)
                    /\ call[cg[1]].groups[cg[2]].status \in {"failed", "threw"}})

\* the call rejects: an exception left getWriteFilePath, which no try encloses
Thrown(cs) ==
    [cs EXCEPT !.pc = "done", !.groups[cs.g].status = "threw",
               !.result = [threw |-> TRUE, error |-> "EIO"]]

\* getWriteFilePath up to its first await: ensureDir, then readdir is issued;
\* or mkdirSync throws (`failures` I/O failures have happened before)
StartGroup(c, cs, failures) ==
    LET dir == getDateDirectory(cs.groups[cs.g].date)
    IN \/ /\ dirs' = dirs \cup {dir}
          /\ call' = [call EXCEPT ![c] = [cs EXCEPT !.pc = "readdir"]]
       \/ /\ dir \notin dirs
          /\ failures < MaxFailures
          /\ dirs' = dirs
          /\ call' = [call EXCEPT ![c] = Thrown(cs)]

\* the choice that lets the record's timestamp override the date argument
chooseTimestamp_RecordFirst(statement, date, now) ==
    IF statement.timestamp # NoTimestamp THEN statement.timestamp
    ELSE IF date # Undefined THEN date ELSE now

\* date || (statement.timestamp ? new Date(statement.timestamp) : new Date())
chooseTimestamp(statement, date, now) ==
    IF date # Undefined THEN date
    ELSE IF statement.timestamp # NoTimestamp THEN statement.timestamp ELSE now

\* what new Date() returned, when that line of appendStatement evaluated it
ClockRead(statement, date, now) ==
    IF date = Undefined /\ statement.timestamp = NoTimestamp THEN now ELSE Undefined

\* appendStatement(statement, date): lines 189-191 up to the first await
appendStatement(c, statement, date, now) ==
    /\ MayStart(c)
    /\ LET timestamp == chooseTimestamp(statement, date, now)
       IN StartGroup(c, [IdleCall EXCEPT !.kind = "single", !.g = 1,
                            !.groups = <<Group(Undefined, timestamp, <<statement>>)>>,
                            !.dateArg = date,
                            !.clock = ClockRead(statement, date, now)],
                     Failures)
    /\ scan' = NoScan
    /\ stats' = NoStats
    /\ UNCHANGED <<tz, cfg, guard, res, bucket, files, writeLocks, lockLog, arrival>>

\* appendStatements(statements): lines 211-233 up to the first await
appendStatements(c, statements, now) ==
    /\ MayStart(c)
    /\ StartGroup(c, [IdleCall EXCEPT !.kind = "batch", !.g = 1,
                         !.groups = groupByDate(statements, << >>, now),
                         !.result = [total |-> Len(statements), success |-> 0,
                                     failed |-> 0, errors |-> << >>]],
                  Failures)
    /\ scan' = NoScan
    /\ stats' = NoStats
    /\ UNCHANGED <<tz, cfg, guard, res, bucket, files, writeLocks, lockLog, arrival>>

\* the calls in the loop of acquireLock(filePath)
Waiting(filePath) ==
    {d \in DOMAIN call : call[d].pc = "wait" /\ call[d].filePath = filePath}

\* acquireLock(filePath) as the continuation of the path's resolution: the first
\* test of the loop, and the set when the path is free
Resolved(c, cs0, filePath, resolvedSize) ==
    LET cs == [cs0 EXCEPT !.filePath = filePath,
                          !.groups[cs0.g].path = filePath,
                          !.groups[cs0.g].resolvedSize = resolvedSize]
    IN IF lockFree(writeLocks, filePath)
       THEN /\ writeLocks' = writeLocks \cup {filePath}
            /\ call' = [call EXCEPT ![c] = [cs EXCEPT !.pc = "open"]]
            /\ lockLog' = IF filePath \in DOMAIN lockLog
                          THEN [lockLog EXCEPT ![filePath] = Append(@, <<c, cs.g>>)]
                          ELSE lockLog @@ (filePath :> <<<<c, cs.g>>>>)
       ELSE /\ call' = [call EXCEPT ![c] = [cs EXCEPT !.pc = "wait",
                                                      !.behind = Waiting(filePath)]]
            /\ UNCHANGED <<writeLocks, lockLog>>

\* getCurrentRotationIndex's readdir returns; getWriteFilePath goes on to
\* needsRotation, which finds no file (no stat, the path is resolved) or issues
\* the stat
getWriteFilePath_readdir(c) ==
    /\ call[c].pc = "readdir"
    /\ LET date == call[c].groups[call[c].g].date
           rotationIndex == getCurrentRotationIndex(date)
           filePath == getFilePath(date, IF rotationIndex = 0 THEN Undefined
                                         ELSE rotationIndex)
           cs == [call[c] EXCEPT !.rotationIndex = rotationIndex,
                                 !.groups[call[c].g].listedAfter = Len(arrival),
                                 !.groups[call[c].g].top = TopShard(date)]
       IN IF filePath \notin DOMAIN files
          THEN Resolved(c, cs, filePath, Undefined)
          ELSE /\ call' = [call EXCEPT ![c] = [cs EXCEPT !.pc = "stat",
                                                         !.filePath = filePath]]
               /\ UNCHANGED <<writeLocks, lockLog>>
    /\ UNCHANGED <<tz, cfg, guard, res, bucket, dirs, files, scan, stats, arrival>>

\* needsRotation's stat returns: lines 137-138 and 155-160, then acquireLock
getWriteFilePath_stat(c) ==
    /\ call[c].pc = "stat"
    /\ LET date == call[c].groups[call[c].g].date
       IN IF needsRotation(call[c].filePath)
          THEN Resolved(c, call[c], getFilePath(date, call[c].rotationIndex + 1),
                        Undefined)
          ELSE Resolved(c, call[c], call[c].filePath, Len(files[call[c].filePath]))
    /\ UNCHANGED <<tz, cfg, guard, res, bucket, dirs, files, scan, stats, arrival>>

\* readdir or stat fails: getCurrentRotationIndex or needsRotation rejects, and
\* so does getWriteFilePath and the append call awaiting it
getWriteFilePath_error(c) ==
    /\ call[c].pc \in {"readdir", "stat"}
    /\ Failures < MaxFailures
    /\ call' = [call EXCEPT ![c] = Thrown(call[c])]
    /\ UNCHANGED <<tz, cfg, guard, res, bucket, dirs, files, writeLocks, scan, stats, lockLog, arrival>>

\* a first-come-first-served lock: a waiter passes only when no call that was
\* waiting before it still waits
acquireLock_retry_FIFO(c) ==
    /\ call[c].pc = "wait"
    /\ lockFree(writeLocks, call[c].filePath)
    /\ call[c].behind \cap Waiting(call[c].filePath) = {}
    /\ Resolved(c, call[c], call[c].filePath,
                call[c].groups[call[c].g].resolvedSize)
    /\ UNCHANGED <<tz, cfg, guard, res, bucket, dirs, files, scan, stats, arrival>>

\* acquireLock: the 10 ms timer fires and the loop finds the path free
acquireLock_retry(c) ==
    /\ call[c].pc = "wait"
    /\ lockFree(writeLocks, call[c].filePath)
    /\ Resolved(c, call[c], call[c].filePath,
                call[c].groups[call[c].g].resolvedSize)
    /\ UNCHANGED <<tz, cfg, guard, res, bucket, dirs, files, scan, stats, arrival>>

\* fs.appendFile: the open with flag "a" creates the file when it is absent
appendFile_open(c) ==
    /\ call[c].pc = "open"
    /\ LET filePath == call[c].filePath
           size == IF filePath \in DOMAIN files THEN Len(files[filePath]) ELSE 0
       IN /\ files' = IF filePath \in DOMAIN files THEN files
                      ELSE files @@ (filePath :> << >>)
          /\ call' = [call EXCEPT
                 ![c].pc = "write", ![c].shorts = 0,
                 ![c].pending = Block(call[c].groups[call[c].g].statements),
                 ![c].groups[call[c].g].openedAfter = Len(arrival),
                 ![c].groups[call[c].g].sizeBefore = size]
    /\ UNCHANGED <<tz, cfg, guard, res, bucket, dirs, writeLocks, scan, stats, lockLog, arrival>>

\* a count of date groups instead of statements
Count_Groups(result, group, failed) ==
    IF failed
    THEN [result EXCEPT !.failed = @ + 1,
                        !.errors = Append(@, <<group.dateKey, "EIO">>)]
    ELSE [result EXCEPT !.success = @ + 1]

\* the result of appendStatements after one date group: lines 240 and 242-243
Count(result, group, failed) ==
    IF failed
    THEN [result EXCEPT !.failed = @ + Len(group.statements),
                        !.errors = Append(@, <<group.dateKey, "EIO">>)]
    ELSE [result EXCEPT !.success = @ + Len(group.statements)]

\* the continuation after appendFile: try/catch/finally of appendStatement
\* (lines 194-202), or of appendStatements with the next turn of its loop up to
\* the next await (lines 232-248)
Continue(c, failed) ==
    /\ writeLocks' = locksAfterAppend(writeLocks, call[c].filePath, failed)
    /\ LET cs == [call[c] EXCEPT !.pending = << >>]
           group == cs.groups[cs.g]
           n == Len(group.statements)
           marked == [cs EXCEPT !.groups[cs.g].status =
                                    IF failed THEN "failed" ELSE "ok"]
       IN IF cs.kind = "single"
          THEN /\ call' = [call EXCEPT ![c] = [marked EXCEPT
                      !.pc = "done",
                      !.result = IF failed
                                 THEN [filePath |-> cs.filePath, success |-> FALSE,
                                       error |-> "EIO"]
                                 ELSE [filePath |-> cs.filePath, success |-> TRUE]]]
               /\ UNCHANGED dirs
          ELSE LET counted == [marked EXCEPT !.result = Count(@, group, failed)]
               IN IF cs.g < Len(cs.groups)
                  THEN StartGroup(c, [counted EXCEPT !.g = @ + 1],
                                  Failures + IF failed THEN 1 ELSE 0)
                  ELSE /\ call' = [call EXCEPT ![c] = [counted EXCEPT !.pc = "done"]]
                       /\ UNCHANGED dirs

\* fs.appendFile: one write(2), of all the bytes left (appendFile then returns) or,
\* a short write, of some of them
appendFile_write(c, n) ==
    /\ call[c].pc = "write"
    /\ n \in 1..Len(call[c].pending)
    /\ n < Len(call[c].pending) => call[c].shorts < MaxShortWrites
    /\ files' = [files EXCEPT ![call[c].filePath] = @ \o SubSeq(call[c].pending, 1, n)]
    /\ IF n = Len(call[c].pending)
       THEN /\ Continue(c, FALSE)
            /\ arrival' = Append(arrival, <<c, call[c].g>>)
       ELSE /\ call' = [call EXCEPT ![c].shorts = @ + 1,
                            ![c].pending = SubSeq(@, n + 1, Len(@))]
            /\ UNCHANGED <<arrival, writeLocks, dirs>>
    /\ UNCHANGED <<tz, cfg, guard, res, bucket, scan, stats, lockLog>>

\* fs.appendFile fails: at the open, or at a write after the bytes already written
appendFile_error(c) ==
    /\ call[c].pc \in {"open", "write"}
    /\ Failures < MaxFailures
    /\ Continue(c, TRUE)
    /\ UNCHANGED <<tz, cfg, guard, res, bucket, files, scan, stats, lockLog, arrival>>

\* ------------------------------------------------------------ the scan
\* the filter with no lower bound
Yielded_NoStart(statements, startDate, end) ==
    SelectSeq(statements,
              LAMBDA st : IF st.timestamp # NoTimestamp
                          THEN st.timestamp <= end
                          ELSE TRUE)

\* the filter dropping the statements that carry no timestamp
Yielded_TimedOnly(statements, startDate, end) ==
    SelectSeq(statements,
              LAMBDA st : /\ st.timestamp # NoTimestamp
                          /\ st.timestamp >= startDate
                          /\ st.timestamp <= end)

\* the filter of lines 301-310 on the statements of one file
Yielded(statements, startDate, end) ==
    SelectSeq(statements,
              LAMBDA st : IF st.timestamp # NoTimestamp
                          THEN st.timestamp >= startDate /\ st.timestamp <= end
                          ELSE TRUE)

\* the listing with no pattern filter: every file of the month directory
matchingFiles_AllFiles(current) ==
    LET dir == getDateDirectory(current)
    IN IF dir \notin dirs THEN << >>
       ELSE LET names == sort(readdir(dir))
            IN [i \in 1..Len(names) |-> <<dir, names[i]>>]

\* the files of one day, as readStatementsInRange orders them (lines 290-295)
matchingFiles(current) ==
    LET dir == getDateDirectory(current)
        baseFilename == StripExtension(getDateFilename(current))
    IN IF dir \notin dirs THEN << >>
       ELSE LET names == sort({f \in readdir(dir) : PatternTest(f, baseFilename)})
            IN [i \in 1..Len(names) |-> <<dir, names[i]>>]

RECURSIVE scanDays(_, _, _)
\* the while loop of readStatementsInRange: <<the files read, the statements yielded>>
scanDays(current, startDate, end) ==
    IF current > end THEN <<<< >>, << >>>>
    ELSE LET shards == matchingFiles(current)
             out == Concat([i \in 1..Len(shards) |->
                               Yielded(readStatements(shards[i]), startDate, end)])
             rest == scanDays(current + UnitsPerDay, startDate, end)
         IN <<shards \o rest[1], out \o rest[2]>>

\* readStatementsInRange(startDate, endDate), run to its end with no write meanwhile
readStatementsInRange(startDate, endDate) ==
    /\ Quiescent
    /\ LET r == scanDays(setHoursStart(startDate), startDate, setHoursEnd(endDate))
       IN scan' = [start |-> startDate, end |-> endDate, shards |-> r[1], out |-> r[2]]
    /\ UNCHANGED <<tz, cfg, guard, res, bucket, dirs, files, writeLocks, call, stats, lockLog, arrival>>

\* --------------------------------------------------------- the statistics
\* how many bytes the files of a set hold together
SizeOf(paths) ==
    Cardinality(UNION {{<<p, k>> : k \in 1..Len(files[p])} : p \in paths})

\* getDateStats(date), run to its end with no write meanwhile; the files it
\* reports are kept as a set of <<path, size>>, readdir giving no order
getDateStats(date) ==
    /\ Quiescent
    /\ LET dir == getDateDirectory(date)
           baseFilename == StripExtension(getDateFilename(date))
           matching == IF dir \notin dirs THEN {}
                       ELSE {<<dir, f>> : f \in {g \in readdir(dir) :
                                                     PatternTest(g, baseFilename)}}
       IN stats' = [date |-> date,
                    files |-> {<<p, Len(files[p])>> : p \in matching},
                    totalSize |-> SizeOf(matching)]
    /\ UNCHANGED <<tz, cfg, guard, res, bucket, dirs, files, writeLocks, call, scan, lockLog, arrival>>

\* ------------------------------------------------------ the GCS backend
\* getDatePrefix(date): prefix/YYYY/MM/DD/
getDatePrefix(date) ==
    <<toString(getFullYear(date)), padStart(toString(getMonth(date) + 1), 2),
      padStart(toString(getDate(date)), 2)>>

\* the values randomUUID() can return: the first 8 characters, then the rest
UUIDs == (0..MaxUUIDHead) \X (0..MaxUUIDTail)

\* the values Date.now() can return
Millis == 0..MaxMillis

\* uuid.slice(0, 8)
slice8(uuid) == uuid[1]

\* generateObjectName(date), Date.now() having returned `timestamp` and
\* randomUUID() `uuid`: the name `${prefix}${timestamp}-${uuid}.jsonl`, kept as
\* its three parts
generateObjectName(date, timestamp, uuid) ==
    <<getDatePrefix(date), timestamp, slice8(uuid)>>

\* the names generated so far
Generated ==
    {call[cg[1]].groups[cg[2]].path :
        cg \in {dh \in Calls \X (1..MaxBatch) : dh[2] <= Len(call[dh[1]].groups)}}
    \ {NoPath}

\* the clock does not go back: what Date.now() may return next
NowMillis == {t \in Millis : \A name \in Generated : name[2] <= t}

\* the name of the object of the group in turn is generated, and file.save is
\* issued
\* (`arrived` saves have completed before)
gcs_StartGroup(c, cs, timestamp, uuid, arrived) ==
    LET objectName == generateObjectName(cs.groups[cs.g].date, timestamp, uuid)
    IN call' = [call EXCEPT ![c] = [cs EXCEPT !.pc = "save",
                                               !.filePath = objectName,
                                               !.groups[cs.g].path = objectName,
                                               !.groups[cs.g].openedAfter = arrived]]

\* appendStatement(statement, date) of the GCS backend, up to its await
gcs_appendStatement(c, statement, date, now, millis, uuid) ==
    /\ MayStart(c)
    /\ millis \in NowMillis
    /\ LET timestamp == chooseTimestamp(statement, date, now)
       IN gcs_StartGroup(c, [IdleCall EXCEPT !.kind = "single", !.g = 1,
                                !.groups = <<Group(Undefined, timestamp, <<statement>>)>>,
                                !.dateArg = date,
                                !.clock = ClockRead(statement, date, now)],
                         millis, uuid, Len(arrival))
    /\ scan' = NoScan
    /\ UNCHANGED <<tz, cfg, guard, res, bucket, dirs, files, writeLocks, stats, lockLog, arrival>>

\* appendStatements(statements) of the GCS backend, up to its first await
gcs_appendStatements(c, statements, now, millis, uuid) ==
    /\ MayStart(c)
    /\ millis \in NowMillis
    /\ gcs_StartGroup(c, [IdleCall EXCEPT !.kind = "batch", !.g = 1,
                             !.groups = groupByDate(statements, << >>, now),
                             !.result = [total |-> Len(statements), success |-> 0,
                                         failed |-> 0, errors |-> << >>]],
                      millis, uuid, Len(arrival))
    /\ scan' = NoScan
    /\ UNCHANGED <<tz, cfg, guard, res, bucket, dirs, files, writeLocks, stats, lockLog, arrival>>

\* the continuation after file.save: the return of appendStatement, or the
\* next turn of the loop of appendStatements up to its await
gcs_Continue(c, failed, arrived) ==
    LET cs == call[c]
        group == cs.groups[cs.g]
        n == Len(group.statements)
        marked == [cs EXCEPT !.groups[cs.g].status =
                                 IF failed THEN "failed" ELSE "ok"]
    IN IF cs.kind = "single"
       THEN call' = [call EXCEPT ![c] = [marked EXCEPT
                   !.pc = "done",
                   !.result = IF failed
                              THEN [filePath |-> cs.filePath, success |-> FALSE,
                                    error |-> "EIO"]
                              ELSE [filePath |-> cs.filePath, success |-> TRUE]]]
       ELSE LET counted == [marked EXCEPT !.result = Count(@, group, failed)]
            IN IF cs.g < Len(cs.groups)
               THEN \E millis \in NowMillis, uuid \in UUIDs :
                        gcs_StartGroup(c, [counted EXCEPT !.g = @ + 1], millis, uuid,
                                       arrived)
               ELSE call' = [call EXCEPT ![c] = [counted EXCEPT !.pc = "done"]]

\* file.save(content, {resumable: false}) succeeds: the object of that name now
\* holds the content, whether or not the name was taken
file_save(c) ==
    /\ call[c].pc = "save"
    /\ LET objectName == call[c].filePath
           content == Block(call[c].groups[call[c].g].statements)
       IN bucket' = [name \in DOMAIN bucket \cup {objectName} |->
                        IF name = objectName THEN content ELSE bucket[name]]
    /\ arrival' = Append(arrival, <<c, call[c].g>>)
    /\ gcs_Continue(c, FALSE, Len(arrival) + 1)
    /\ UNCHANGED <<tz, cfg, guard, res, dirs, files, writeLocks, scan, stats, lockLog>>

\* the text of an object name, `${prefix}${timestamp}-${uuid}.jsonl`
objectNameText(name) ==
    name[1][1] \o <<47>> \o name[1][2] \o <<47>> \o name[1][3] \o <<47>>
    \o toString(name[2]) \o <<45>> \o padStart(toString(name[3]), 8) \o Extension

\* a.name.localeCompare(b.name) < 0; on the characters of object names the
\* locale's order is that of the code units
localeCompareLess(a, b) == LexLess(objectNameText(a), objectNameText(b))

\* getFiles({prefix}) then files.sort(...): the objects under the prefix, by name
sortedFiles(prefix) ==
    LET texts == sort({objectNameText(n) : n \in {m \in DOMAIN bucket : m[1] = prefix}})
    IN [i \in 1..Len(texts) |->
           CHOOSE n \in DOMAIN bucket : objectNameText(n) = texts[i]]

\* readStatements(objectName) of the GCS backend
gcs_readStatements(objectName) ==
    IF objectName \notin DOMAIN bucket THEN << >>
    ELSE LET lines == SelectSeq(split(bucket[objectName], << >>), LAMBDA l : Len(l) > 0)
         IN Concat([i \in 1..Len(lines) |-> parse(lines[i])])

RECURSIVE gcs_scanDays(_, _, _)
\* the while loop of readStatementsInRange of the GCS backend:
\* <<the objects read, the statements yielded>>
gcs_scanDays(current, startDate, end) ==
    IF current > end THEN <<<< >>, << >>>>
    ELSE LET shards == sortedFiles(getDatePrefix(current))
             out == Concat([i \in 1..Len(shards) |->
                               Yielded(gcs_readStatements(shards[i]), startDate, end)])
             rest == gcs_scanDays(current + UnitsPerDay, startDate, end)
         IN <<shards \o rest[1], out \o rest[2]>>

\* readStatementsInRange(startDate, endDate) of the GCS backend, run to its end
\* with no write meanwhile
gcs_readStatementsInRange(startDate, endDate) ==
    /\ Quiescent
    /\ LET r == gcs_scanDays(setHoursStart(startDate), startDate, setHoursEnd(endDate))
       IN scan' = [start |-> startDate, end |-> endDate, shards |-> r[1], out |-> r[2]]
    /\ UNCHANGED <<tz, cfg, guard, res, bucket, dirs, files, writeLocks, call, stats, lockLog, arrival>>

\* file.save rejects: the bucket is as it was
file_save_error(c) ==
    /\ call[c].pc = "save"
    /\ Failures < MaxFailures
    /\ gcs_Continue(c, TRUE, Len(arrival))
    /\ UNCHANGED <<tz, cfg, guard, res, bucket, dirs, files, writeLocks, scan, stats, lockLog, arrival>>

\* ------------------------------------------------ POST /api/xapi/statements
\* the verb ids the route accepts
VALID_VERB_IDS == {"placed"}

\* a null element of the statements array
Null == [id |-> << >>, timestamp |-> NoTimestamp, verb |-> "null"]

\* validateStatement(statement): "valid", "invalid" (errors were pushed), or
\* "throws": reading a property of null is a TypeError
validateStatement(statement) ==
    IF statement = Null THEN "throws"
    ELSE IF statement.timestamp = NoTimestamp THEN "invalid"
    ELSE IF statement.verb \notin VALID_VERB_IDS THEN "invalid"
    ELSE "valid"

\* the handler answers before any storage call
Answered(c, body, status) ==
    /\ call' = [call EXCEPT ![c] = [IdleCall EXCEPT !.pc = "done",
                                                     !.kind = "rejected",
                                                     !.result = [status |-> status],
                                                     !.body = body]]
    /\ UNCHANGED <<tz, cfg, guard, res, bucket, dirs, files, writeLocks, scan, stats, lockLog, arrival>>

\* router.post("/statements"), up to its response or to the await of the
\* storage call
post_statements(c, body, now) ==
    /\ MayStart(c)
    /\ LET statements == body.statements
           verdicts == {validateStatement(statements[i]) : i \in 1..Len(statements)}
       IN IF body.shape = "other" THEN Answered(c, body, 400)
          ELSE IF Len(statements) = 0 THEN Answered(c, body, 400)
          ELSE IF Len(statements) > MaxStatements THEN Answered(c, body, 400)
          ELSE IF "throws" \in verdicts THEN Answered(c, body, 500)
          ELSE IF "invalid" \in verdicts THEN Answered(c, body, 400)
          ELSE IF Len(statements) = 1
               THEN appendStatement(c, statements[1], Undefined, now)
               ELSE appendStatements(c, statements, now)

\* the status of the response, once the handler has answered: lines 187-225
res_status(c) ==
    LET cs == call[c]
    IN IF cs.kind = "rejected" THEN cs.result.status
       ELSE IF \E g \in 1..Len(cs.groups) : cs.groups[g].status = "threw" THEN 500
       ELSE IF cs.kind = "single" THEN (IF cs.result.success THEN 204 ELSE 500)
       ELSE IF cs.result.failed > 0
            THEN (IF cs.result.success = 0 THEN 500 ELSE 207)
            ELSE 204

\* ------------------------------------------------------- specification
\* the explicit date argument of appendStatement: none, or some instant
DateArgs == {Undefined, MaxInstant}

\* the instants new Date() may return
Clock == Instants

\* a statement that carries no timestamp field
Untimed(c) == {[id |-> <<c, 1>>, timestamp |-> NoTimestamp]}

Statements(c) ==
    {[id |-> <<c, 1>>, timestamp |-> t] : t \in Instants}

Batches(c) ==
    UNION {[1..n -> Instants] : n \in 1..MaxBatch}

BatchOf(c, ts) == [i \in 1..Len(ts) |-> [id |-> <<c, i>>, timestamp |-> ts[i]]]

\* one step of an append in flight
Step(c) ==
    \/ getWriteFilePath_readdir(c)
    \/ getWriteFilePath_stat(c)
    \/ getWriteFilePath_error(c)
    \/ acquireLock_retry(c)
    \/ appendFile_open(c)
    \/ \E n \in 1..(2 * MaxBatch) : appendFile_write(c, n)
    \/ appendFile_error(c)

\* concurrent clients: a call may be issued while others are in flight
Next ==
    \/ \E c \in Calls : \E st \in Statements(c), date \in DateArgs, now \in Clock :
           appendStatement(c, st, date, now)
    \/ \E c \in Calls : \E ts \in Batches(c), now \in Clock :
           appendStatements(c, BatchOf(c, ts), now)
    \/ \E c \in Calls : Step(c)

Spec == Init /\ [][Next]_vars

\* one step of the only append in flight: it never finds its lock held
StepSeq(c) ==
    \/ getWriteFilePath_readdir(c)
    \/ getWriteFilePath_stat(c)
    \/ getWriteFilePath_error(c)
    \/ appendFile_open(c)
    \/ \E n \in 1..(2 * MaxBatch) : appendFile_write(c, n)
    \/ appendFile_error(c)

\* one client at a time: it appends, waits for the result, and scans
NextSeq ==
    \/ /\ Quiescent
       /\ \E c \in Calls :
              \E st \in Statements(c) \cup Untimed(c), date \in DateArgs, now \in Clock :
                  appendStatement(c, st, date, now)
    \/ /\ Quiescent
       /\ \E c \in Calls : \E ts \in Batches(c) \cup {<<NoTimestamp>>}, now \in Clock :
              appendStatements(c, BatchOf(c, ts), now)
    \/ \E c \in Calls : StepSeq(c)
    \/ \E startDate \in Instants, endDate \in Instants :
           readStatementsInRange(startDate, endDate)

SpecSeq == Init /\ [][NextSeq]_vars

\* ------------------------------------- a store that already holds shards
\* the highest rotation index whose padded form has PadWidth digits
LastPadded == 10 ^ PadWidth - 1

\* the date whose shards the store holds at start
SealedDate == 0

\* the record of the shard of index i at start
SealedStatement(i) == [id |-> <<0, i>>, timestamp |-> SealedDate]

\* the process starts on a store in which earlier runs rotated SealedDate up to
\* the index LastPadded, every shard holding one record
InitFull ==
    /\ tz \in TZOffsets
    /\ dirs = {getDateDirectory(SealedDate)}
    /\ files = [p \in {getFilePath(SealedDate, i) : i \in 0..LastPadded} |->
                    Block(<<SealedStatement(ShardIndex(p))>>)]
    /\ writeLocks = {}
    /\ call = [c \in Calls |-> IdleCall]
    /\ scan = NoScan
    /\ res = NoRes
    /\ cfg = DefaultConfig
    /\ guard = NoGuard
    /\ stats = NoStats
    /\ bucket = [n \in {} |-> << >>]
    /\ lockLog = [p \in {} |-> << >>]
    /\ arrival = << >>

\* one client at a time appends to SealedDate
NextFull ==
    \/ /\ Quiescent
       /\ \E c \in Calls :
              \E now \in Clock :
                  appendStatement(c, [id |-> <<c, 1>>, timestamp |-> SealedDate],
                                  Undefined, now)
    \/ /\ Quiescent
       /\ \E c \in Calls : \E n \in 1..MaxBatch :
              \E now \in Clock :
                  appendStatements(c, BatchOf(c, [i \in 1..n |-> SealedDate]), now)
    \/ \E c \in Calls : StepSeq(c)

SpecFull == InitFull /\ [][NextFull]_vars

\* one client at a time appends to SealedDate; between appends the statistics
\* of SealedDate, or of a date that has no shard, are asked for
NextStats ==
    \/ /\ Quiescent
       /\ \E c \in Calls :
              \E now \in Clock :
                  appendStatement(c, [id |-> <<c, 1>>, timestamp |-> SealedDate],
                                  Undefined, now)
    \/ \E c \in Calls : StepSeq(c)
    \/ \E date \in {SealedDate, MaxInstant} : getDateStats(date)

SpecStats == InitFull /\ [][NextStats]_vars

\* concurrent clients of the GCS backend
NextGcs ==
    \/ \E c \in Calls : \E st \in Statements(c), date \in DateArgs, now \in Clock,
                           millis \in Millis, uuid \in UUIDs :
           gcs_appendStatement(c, st, date, now, millis, uuid)
    \/ \E c \in Calls : \E ts \in Batches(c), now \in Clock,
                           millis \in Millis, uuid \in UUIDs :
           gcs_appendStatements(c, BatchOf(c, ts), now, millis, uuid)
    \/ \E c \in Calls : file_save(c)
    \/ \E c \in Calls : file_save_error(c)

SpecGcs == Init /\ [][NextGcs]_vars

\* the statements a request can carry at position i: valid ones, one without a
\* timestamp, one with an unknown verb, and null
RouteStatements(c, i) ==
    {[id |-> <<c, i>>, timestamp |-> t, verb |-> "placed"] : t \in Instants}
    \cup {[id |-> <<c, i>>, timestamp |-> NoTimestamp, verb |-> "placed"],
          [id |-> <<c, i>>, timestamp |-> 0, verb |-> "bogus"],
          Null}

\* the request bodies: { statements: [...] } of up to MaxBatch elements or of
\* MaxStatements + 1, a single statement, or neither
Bodies(c) ==
    {[shape |-> "batch", statements |-> ss] :
        ss \in UNION {{f \in [1..n -> UNION {RouteStatements(c, i) : i \in 1..MaxBatch}] :
                          \A i \in 1..n : f[i] \in RouteStatements(c, i)} :
                      n \in 0..MaxBatch}}
    \cup {[shape |-> "batch",
           statements |-> [i \in 1..(MaxStatements + 1) |->
                              [id |-> <<c, i>>, timestamp |-> 0, verb |-> "placed"]]]}
    \cup {[shape |-> "single", statements |-> <<st>>] :
             st \in RouteStatements(c, 1) \ {Null}}
    \cup {[shape |-> "other", statements |-> << >>]}

\* one request at a time
NextRoute ==
    \/ /\ Quiescent
       /\ \E c \in Calls : \E body \in Bodies(c), now \in Clock :
              post_statements(c, body, now)
    \/ \E c \in Calls : StepSeq(c)

SpecRoute == Init /\ [][NextRoute]_vars

\* ----------------------------------------- writers contending for one shard
Writers == 1..NumWriters

\* ------------------------------------------------------------ GET /statements
\* the result limit of a response, scaled down from 10000
maxResults == 2
\* the widest range of a query, in days
MaxRangeDays == 31
\* the most statements a scan yields to one response
MaxYield == 5
ActorNames == {"a", "b"}
\* no actorId in the query (or an empty one); no actor.account.name in a statement
NoActor == "undefined"
\* a date string that new Date() turns into an invalid date
InvalidDate == 0 - 2
QueryDates == Instants \cup {Undefined, InvalidDate}

\* what readStatementsInRange yields to the route, in order
ScanYields == UNION {[1..n -> ActorNames \cup {NoActor}] : n \in 0..MaxYield}
ScanYield(names) == [i \in 1..Len(names) |-> [id |-> i, actor |-> names[i]]]

\* the actorId filter of the loop: no filter when actorId is falsy
passesFilter(actorId, statement) == actorId = NoActor \/ statement.actor = actorId

reachedLimit_After(count) == count > maxResults
\* the result limit check of the loop
reachedLimit(count) == count >= maxResults

truncatedLine(count) == [_truncated |-> TRUE, count |-> count]

\* the request is answered before the scan starts
res_json(status) == res' = [NoRes EXCEPT !.pc = "done", !.status = status]

\* router.get("/statements") up to the loop: the checks of the query, then the
\* headers of the streamed response
get_statements(startDate, endDate, actorId, names, throws) ==
    /\ res.pc = "idle"
    /\ IF startDate = Undefined \/ endDate = Undefined
       THEN res_json(400)
       ELSE IF startDate = InvalidDate \/ endDate = InvalidDate
       THEN res_json(400)
       ELSE IF startDate > endDate
       THEN res_json(400)
       ELSE IF endDate - startDate > MaxRangeDays * UnitsPerDay
       THEN res_json(400)
       ELSE res' = [NoRes EXCEPT !.pc = "loop", !.status = 200,
                                 !.actorId = actorId,
                                 !.source = ScanYield(names),
                                 !.throws = throws]
    /\ UNCHANGED <<tz, cfg, guard, bucket, dirs, files, writeLocks, call, scan, stats, lockLog, arrival>>

\* one turn of the for await loop: pull a statement from the scan, filter it,
\* check the limit, write it; res.end() when the scan is over or after the break
for_await ==
    /\ res.pc = "loop"
    /\ IF res.pulled = Len(res.source)
       THEN /\ ~res.throws
            /\ res' = [res EXCEPT !.pc = "done"]
       ELSE LET statement == res.source[res.pulled + 1]
                pulled    == [res EXCEPT !.pulled = @ + 1]
            IN  IF ~passesFilter(res.actorId, statement)
                THEN res' = pulled
                ELSE IF reachedLimit(res.count)
                THEN res' = [pulled EXCEPT !.lines = Append(@, truncatedLine(res.count)),
                                           !.pc = "done"]
                ELSE res' = [pulled EXCEPT !.lines = Append(@, statement),
                                           !.count = @ + 1]
    /\ UNCHANGED <<tz, cfg, guard, bucket, dirs, files, writeLocks, call, scan, stats, lockLog, arrival>>

\* the scan throws (readdir or a read fails): the catch of the route answers 500
\* when nothing was written yet, and ends the response otherwise
for_await_error ==
    /\ res.pc = "loop"
    /\ res.pulled = Len(res.source)
    /\ res.throws
    /\ res' = [res EXCEPT !.pc = "done",
                          !.status = IF res.lines = << >> THEN 500 ELSE @]
    /\ UNCHANGED <<tz, cfg, guard, bucket, dirs, files, writeLocks, call, scan, stats, lockLog, arrival>>

NextGet ==
    \/ \E startDate \in QueryDates, endDate \in QueryDates,
          actorId \in ActorNames \cup {NoActor}, names \in ScanYields, throws \in BOOLEAN :
           get_statements(startDate, endDate, actorId, names, throws)
    \/ for_await
    \/ for_await_error

SpecGet == Init /\ [][NextGet]_vars

\* ------------------------------------------------------------ guardInlineCode
MaxFiles == 3
MaxContentChars == 2
MaxKeepBytes == 4
MaxGuardCalls == 1

\* the characters of a content string, by code point: a (one byte in UTF-8),
\* e acute (two bytes); U+FFFD is what decoding puts for a malformed sequence
Chars == {97, 233}
Replacement == 65533

\* the values MAX_CODE_BYTES takes: every object is oversized, or only some
CodeLimits == {0, 40}
Configs == [maxCodeBytes : CodeLimits, truncateInline : BOOLEAN,
            truncateKeepBytes : 0..MaxKeepBytes]

\* the UTF-8 encoding of one character
utf8(ch) ==
    IF ch < 128 THEN <<ch>>
    ELSE IF ch < 2048 THEN <<192 + (ch \div 64), 128 + (ch % 64)>>
    ELSE <<224 + (ch \div 4096), 128 + ((ch \div 64) % 64), 128 + (ch % 64)>>

\* Buffer.from(string, "utf8")
Buffer_from(string) == Concat([i \in 1..Len(string) |-> utf8(string[i])])

isContinuation(byte) == byte >= 128 /\ byte < 192

\* buf.toString("utf8"): a complete sequence decodes to its character, a lead
\* byte cut off from its continuation bytes and a stray byte decode to U+FFFD
RECURSIVE Buffer_toString(_)
Buffer_toString(buf) ==
    IF Len(buf) = 0 THEN << >>
    ELSE LET b == buf[1]
         IN  IF b < 128 THEN <<b>> \o Buffer_toString(Tail(buf))
             ELSE IF b >= 192 /\ b < 224
             THEN IF Len(buf) >= 2 /\ isContinuation(buf[2])
                  THEN <<(b - 192) * 64 + (buf[2] - 128)>>
                           \o Buffer_toString(SubSeq(buf, 3, Len(buf)))
                  ELSE <<Replacement>> \o Buffer_toString(Tail(buf))
             ELSE IF b >= 224 /\ b < 240
             THEN IF Len(buf) >= 3 /\ isContinuation(buf[2]) /\ isContinuation(buf[3])
                  THEN <<(b - 224) * 4096 + (buf[2] - 128) * 64 + (buf[3] - 128)>>
                           \o Buffer_toString(SubSeq(buf, 4, Len(buf)))
                  ELSE IF Len(buf) >= 2 /\ isContinuation(buf[2])
                  THEN <<Replacement>> \o Buffer_toString(SubSeq(buf, 3, Len(buf)))
                  ELSE <<Replacement>> \o Buffer_toString(Tail(buf))
             ELSE <<Replacement>> \o Buffer_toString(Tail(buf))

\* the entries of files[]: a content string, or a content that is not a string
StringFile(content) == [type |-> "string", content |-> content]
NumberFile == [type |-> "number", content |-> << >>]
Contents == UNION {[1..n -> Chars] : n \in 0..MaxContentChars}
FileEntries == {StringFile(content) : content \in Contents} \cup {NumberFile}

\* the values of props.code: not an object, an object without a files array,
\* an object with one
NotObject == [isObject |-> FALSE, isArray |-> FALSE, files |-> << >>]
NoFilesObject == [isObject |-> TRUE, isArray |-> FALSE, files |-> << >>]
CodeObject(fs) == [isObject |-> TRUE, isArray |-> TRUE, files |-> fs]
CodeObjects ==
    {NotObject, NoFilesObject}
        \cup {CodeObject(fs) : fs \in UNION {[1..n -> FileEntries] : n \in 0..MaxFiles}}

\* the byte length of JSON.stringify of one entry: {"content":"..."} or {"content":0}
entryBytes(f) ==
    IF f.type = "string" THEN 14 + Len(Buffer_from(f.content)) ELSE 13

RECURSIVE sumBytes(_)
sumBytes(fs) == IF Len(fs) = 0 THEN 0 ELSE entryBytes(Head(fs)) + sumBytes(Tail(fs))

\* Buffer.from(JSON.stringify(obj), "utf8").length: {} or {"files":[...]}
jsonBytes(obj) ==
    IF ~obj.isArray THEN 2
    ELSE 12 + sumBytes(obj.files) + (IF Len(obj.files) > 1 THEN Len(obj.files) - 1 ELSE 0)

\* sha256Hex(buf): one hash per serialized object
sha256Hex(obj) == <<"sha256", obj>>

\* the loop over copy.files: cut the first string that exceeds what is left of
\* the budget, and stop at the first string that uses the budget up
RECURSIVE truncateFiles(_, _, _)
truncateFiles(fs, i, budget) ==
    IF i > Len(fs) THEN fs
    ELSE IF fs[i].type # "string" THEN truncateFiles(fs, i + 1, budget)
    ELSE LET s == Buffer_from(fs[i].content)
         IN  IF Len(s) > budget
             THEN [fs EXCEPT ![i].content =
                      Buffer_toString(SubSeq(s, 1, IF budget > 0 THEN budget ELSE 0))]
             ELSE IF budget - Len(s) <= 0 THEN fs
             ELSE truncateFiles(fs, i + 1, budget - Len(s))

\* what guardInlineCode(obj) returns; JSON.parse reads back what JSON.stringify
\* wrote, so the catch ("truncate failed") is never entered
guardResult(obj) ==
    IF ~obj.isObject
    THEN [ok |-> TRUE, obj |-> obj, hash |-> <<"null">>, size |-> 0, truncated |-> FALSE]
    ELSE LET size == jsonBytes(obj)
             hash == sha256Hex(obj)
         IN  IF size <= cfg.maxCodeBytes
             THEN [ok |-> TRUE, obj |-> obj, hash |-> hash, size |-> size,
                   truncated |-> FALSE]
             ELSE IF ~cfg.truncateInline
             THEN [ok |-> FALSE, reason |-> "code too large", hash |-> hash, size |-> size]
             ELSE LET copy == IF obj.isArray
                              THEN [obj EXCEPT !.files =
                                       truncateFiles(obj.files, 1, cfg.truncateKeepBytes)]
                              ELSE obj
                  IN  [ok |-> TRUE, obj |-> copy, hash |-> hash,
                       size |-> jsonBytes(copy), truncated |-> TRUE]

guardInlineCode(obj) ==
    /\ guard.calls < MaxGuardCalls
    /\ guard' = [calls |-> guard.calls + 1, obj |-> obj, result |-> guardResult(obj)]
    /\ UNCHANGED <<tz, cfg, res, bucket, dirs, files, writeLocks, call, scan, stats,
                   lockLog, arrival>>

InitGuard ==
    /\ tz = 0
    /\ dirs = {}
    /\ files = [p \in {} |-> << >>]
    /\ writeLocks = {}
    /\ call = [c \in Calls |-> IdleCall]
    /\ scan = NoScan
    /\ stats = NoStats
    /\ bucket = [n \in {} |-> << >>]
    /\ lockLog = [p \in {} |-> << >>]
    /\ arrival = << >>
    /\ res = NoRes
    /\ cfg \in Configs
    /\ guard = NoGuard

NextGuard == \E obj \in CodeObjects : guardInlineCode(obj)

SpecGuard == InitGuard /\ [][NextGuard]_vars

InitLock ==
    /\ tz \in TZOffsets
    /\ dirs = {}
    /\ files = [p \in {} |-> << >>]
    /\ writeLocks = {}
    /\ call = [c \in Writers |-> IdleCall]
    /\ scan = NoScan
    /\ res = NoRes
    /\ cfg = DefaultConfig
    /\ guard = NoGuard
    /\ stats = NoStats
    /\ bucket = [n \in {} |-> << >>]
    /\ lockLog = [p \in {} |-> << >>]
    /\ arrival = << >>

\* concurrent appendStatement calls, each of one record of the same instant
NextLock ==
    \/ \E c \in Writers : \E now \in Clock :
           appendStatement(c, [id |-> <<c, 1>>, timestamp |-> 0], Undefined, now)
    \/ \E c \in Writers : Step(c)

SpecLock == InitLock /\ [][NextLock]_vars

\* every I/O operation issued completes and every timer set fires: a call in
\* flight that can take a step eventually takes one
SpecLockFair == SpecLock /\ \A c \in Writers : WF_vars(Step(c))

\* one client of the GCS backend at a time: it appends, waits for the result,
\* and scans
NextGcsScan ==
    \/ /\ Quiescent
       /\ \E c \in Calls : \E st \in Statements(c), date \in DateArgs,
                              now \in Clock, millis \in Millis, uuid \in UUIDs :
              gcs_appendStatement(c, st, date, now, millis, uuid)
    \/ /\ Quiescent
       /\ \E c \in Calls : \E ts \in Batches(c), now \in Clock,
                              millis \in Millis, uuid \in UUIDs :
              gcs_appendStatements(c, BatchOf(c, ts), now, millis, uuid)
    \/ \E c \in Calls : file_save(c)
    \/ \E c \in Calls : file_save_error(c)
    \/ \E endDate \in Instants : gcs_readStatementsInRange(0, endDate)

SpecGcsScan == Init /\ [][NextGcsScan]_vars

\* ------------------------------------------------- properties: the lock
\* the group of statements a history entry <<call, group>> stands for
GroupOf(cg) == call[cg[1]].groups[cg[2]]

\* a call is between its lock acquisition and its release
Holding(c) == call[c].pc \in {"open", "write"}

\* C1: when every append that acquired the lock of a path has returned
\* successfully, the file is the concatenation of their blocks in lock
\* acquisition order: no block is split by bytes of another
C1_LockOrderConcatenation ==
    \A p \in DOMAIN lockLog :
        (\A i \in 1..Len(lockLog[p]) : GroupOf(lockLog[p][i]).status = "ok")
            => /\ p \in DOMAIN files
               /\ files[p] = Concat([i \in 1..Len(lockLog[p]) |->
                                        Block(GroupOf(lockLog[p][i]).statements)])

\* C1 witness: two calls appended to one path, the second resolved the path
\* before any block had reached disk, and a two-line block is in the file
C1_Witness ==
    \E p \in DOMAIN lockLog :
        /\ Len(lockLog[p]) = 2
        /\ lockLog[p][1][1] # lockLog[p][2][1]
        /\ \A i \in 1..2 : GroupOf(lockLog[p][i]).status = "ok"
        /\ GroupOf(lockLog[p][2]).listedAfter = 0
        /\ \E i \in 1..2 : Len(GroupOf(lockLog[p][i]).statements) = 2

\* C2: at most one call holds the lock of a path, and the lock table has an
\* entry for a path exactly when a call holds it
C2_MutualExclusion ==
    /\ \A c1 \in Calls, c2 \in Calls :
           (Holding(c1) /\ Holding(c2) /\ call[c1].filePath = call[c2].filePath)
               => c1 = c2
    /\ writeLocks = {call[c].filePath : c \in {d \in Calls : Holding(d)}}

\* C2 witness: one call is writing to a path while another polls for its lock
C2_Witness ==
    \E c1 \in Calls, c2 \in Calls :
        /\ call[c1].pc = "write"
        /\ call[c2].pc = "wait"
        /\ call[c1].filePath = call[c2].filePath

\* C3: a lock outlives no append: whatever way an append ended, every entry of
\* the lock table belongs to a call still between acquisition and release
C3_LockReleased ==
    \A p \in writeLocks : \E c \in Calls : Holding(c) /\ call[c].filePath = p

\* C3 witness: an append failed and the lock table is empty afterwards
C3_Witness ==
    /\ Quiescent
    /\ writeLocks = {}
    /\ \E c \in Calls :
           /\ call[c].pc = "done"
           /\ call[c].groups[Len(call[c].groups)].status = "failed"

\* --------------------------------------------- properties: the range scan
\* every line of every file is one JSON text
NoCorruptedLine ==
    \A p \in DOMAIN files :
        LET lines == split(files[p], << >>)
        IN \A i \in 1..Len(lines) : Len(lines[i]) <= 1

\* how many times the scan yielded a statement
TimesYielded(st) == Cardinality({i \in 1..Len(scan.out) : scan.out[i] = st})

\* the range of the last scan spans an instant
InRange(t) == scan.start <= t /\ t <= scan.end

\* C4: a successfully appended record is yielded exactly once by a scan whose
\* range spans its timestamp (and the date it was filed under), as long as no
\* line is corrupted
C4_RoundTrip ==
    (scan # NoScan /\ NoCorruptedLine) =>
        \A c \in Calls : \A g \in 1..Len(call[c].groups) :
            LET group == call[c].groups[g]
            IN group.status = "ok" =>
                   \A i \in 1..Len(group.statements) :
                       (/\ InRange(group.statements[i].timestamp)
                        /\ call[c].kind = "single" => InRange(group.date))
                           => TimesYielded(group.statements[i]) = 1

\* C5 as stated: a yielded record's timestamp lies between the two instants
\* the caller passed
C5_RawRange ==
    scan # NoScan =>
        \A i \in 1..Len(scan.out) :
            scan.out[i].timestamp # NoTimestamp => InRange(scan.out[i].timestamp)

\* C5: a yielded record's timestamp is no earlier than the start instant the
\* caller passed and no later than the last instant of the end's local day
C5_StartToEndOfDay ==
    scan # NoScan =>
        \A i \in 1..Len(scan.out) :
            scan.out[i].timestamp # NoTimestamp =>
                /\ scan.start <= scan.out[i].timestamp
                /\ scan.out[i].timestamp <= setHoursEnd(scan.end)

\* C5 witness: the scan yielded a record later than the end instant, and passed
\* over a record of a file it read that is earlier than the start instant
C5_Witness ==
    /\ scan # NoScan
    /\ \E i \in 1..Len(scan.out) : scan.out[i].timestamp > scan.end
    /\ \E j \in 1..Len(scan.shards) :
           \E k \in 1..Len(readStatements(scan.shards[j])) :
               readStatements(scan.shards[j])[k].timestamp < scan.start

\* C6: the scan reads the shards of a day in ascending rotation index, the
\* unsuffixed file (index 0) first
C6_AscendingIndex ==
    scan # NoScan =>
        \A i \in 1..Len(scan.shards), j \in 1..Len(scan.shards) :
            (i < j /\ ShardDate(scan.shards[i]) = ShardDate(scan.shards[j]))
                => ShardIndex(scan.shards[i]) < ShardIndex(scan.shards[j])

\* -------------------------------------------- properties: the rotation
\* the shard a wholly written block went to
ArrivedAt(i) == GroupOf(arrival[i]).path

\* C7: across the shards of a date, a block that was wholly on disk before the
\* write of another began is in a shard of no higher rotation index, whatever
\* the interleaving
C7_ShardOrderIsArrivalOrder ==
    \A i \in 1..Len(arrival), j \in 1..Len(arrival) :
        (/\ i < j
         /\ GroupOf(arrival[j]).openedAfter >= i
         /\ ShardDate(ArrivedAt(i)) = ShardDate(ArrivedAt(j)))
            => ShardIndex(ArrivedAt(i)) <= ShardIndex(ArrivedAt(j))

\* C8: every block, concurrent ones included, is appended to a shard whose
\* size was below maxFileSize when the block's write began
C8_OvershootOneBatch ==
    \A i \in 1..Len(arrival) : GroupOf(arrival[i]).sizeBefore < MaxFileSize

\* C9: the shard files of a date carry the rotation indices 0..k with no gap,
\* and the shard of index i+1 exists only if the shard of index i exists with a
\* size of maxFileSize or more
C9_ContiguousIndices ==
    \A p \in DOMAIN files :
        ShardIndex(p) > 0 =>
            \E q \in DOMAIN files :
                /\ ShardDate(q) = ShardDate(p)
                /\ ShardIndex(q) = ShardIndex(p) - 1
                /\ Len(files[q]) >= MaxFileSize

\* C9 witness: a date has the shards of index 0, 1 and 2 while an append failed
\* and another is waiting for a lock
C9_Witness ==
    /\ \E p \in DOMAIN files : ShardIndex(p) = 2
    /\ Failures > 0
    /\ \E c \in Calls : call[c].pc = "wait"

\* the dates that have a shard
ShardDates == {ShardDate(p) : p \in DOMAIN files}

\* how many statements the shards of a date hold
RecordsOfDate(d) ==
    Cardinality(UNION {{<<p, k>> : k \in 1..Len(readStatements(p))} :
                          p \in {q \in DOMAIN files : ShardDate(q) = d}})

\* how many of them the store held before the first append (they carry no call's id)
Sealed(d) ==
    Cardinality(UNION {{<<p, k>> : k \in {j \in 1..Len(readStatements(p)) :
                                             readStatements(p)[j].id[1] \notin Calls}} :
                          p \in {q \in DOMAIN files : ShardDate(q) = d}})

\* how many statements the blocks wholly written to the shards of a date hold
AppendedToDate(d) ==
    LET at == SelectSeq(arrival, LAMBDA cg : ShardDate(GroupOf(cg).path) = d)
    IN Len(Concat([i \in 1..Len(at) |-> GroupOf(at[i]).statements]))

\* C10: with one append at a time, an append writes to the shard one index
\* above the highest-index shard of its date when that shard's size is
\* maxFileSize or more, and to that shard otherwise; the index written to never
\* decreases; and, no append having failed, the shards of a date hold as many
\* records as were appended to it
C10_SequentialRotation ==
    /\ \A c \in Calls : \A g \in 1..Len(call[c].groups) :
           LET group == call[c].groups[g]
           IN group.path # NoPath =>
                  ShardIndex(group.path) =
                      IF group.top = << >> THEN 0
                      ELSE IF group.top[2] >= MaxFileSize THEN group.top[1] + 1
                      ELSE group.top[1]
    /\ \A i \in 1..Len(arrival), j \in 1..Len(arrival) :
           (i < j /\ ShardDate(ArrivedAt(i)) = ShardDate(ArrivedAt(j)))
               => ShardIndex(ArrivedAt(i)) <= ShardIndex(ArrivedAt(j))
    /\ (Quiescent /\ Failures = 0) =>
           \A d \in ShardDates : RecordsOfDate(d) = Sealed(d) + AppendedToDate(d)


\* ---------------------------------- properties: resolving the write target
\* the call has listed the directory for its current group, and
\* getWriteFilePath did not reject
Listed(c) ==
    /\ call[c].pc \notin {"idle", "readdir"}
    /\ call[c].groups[call[c].g].status # "threw"

C12_NeverThrows ==
    \A c \in Calls :
        (call[c].kind = "single" /\ call[c].pc = "done") =>
            /\ call[c].groups[1].status # "threw"
            /\ call[c].groups[1].status = "failed" =>
                   /\ call[c].result.success = FALSE
                   /\ call[c].result.error = "EIO"

\* the groups of a finished call that failed, in the order they were tried
FailedGroups(c) ==
    SelectSeq([g \in 1..Len(call[c].groups) |-> g],
              LAMBDA g : call[c].groups[g].status = "failed")

\* C13: when appendStatements has returned, every date group was tried (a
\* failure of one stopped no other), the groups that succeeded are on disk,
\* and the result carries one error per failed group, prefixed with its date key
C13_GroupIsolation ==
    \A c \in Calls :
        (call[c].kind = "batch" /\ call[c].pc = "done") =>
            /\ \A g \in 1..Len(call[c].groups) :
                   call[c].groups[g].status \in {"ok", "failed"}
            /\ \A g \in 1..Len(call[c].groups) :
                   call[c].groups[g].status = "ok" =>
                       \E i \in 1..Len(arrival) : arrival[i] = <<c, g>>
            /\ call[c].result.errors =
                   [i \in 1..Len(FailedGroups(c)) |->
                       <<call[c].groups[FailedGroups(c)[i]].dateKey, "EIO">>]

\* ------------------------------------------ properties: one block per group
\* the lines a group must show in its shard: each statement's JSON text followed
\* by a newline, in the order the statements were passed
LinesOf(statements) ==
    [k \in 1..(2 * Len(statements)) |->
        IF k % 2 = 1
        THEN <<"json", statements[(k + 1) \div 2].id, statements[(k + 1) \div 2].timestamp>>
        ELSE NL]

\* how many times a call's group acquired a lock, over all paths
Acquisitions(cg) ==
    Cardinality({pi \in UNION {{<<p, i>> : i \in 1..Len(lockLog[p])} : p \in DOMAIN lockLog} :
                    lockLog[pi[1]][pi[2]] = cg})

\* C14: a date group of appendStatements that was written took the lock once
\* and its records stand in the shard as one contiguous run of lines, in input
\* order, from the offset at which its write began, whatever other appends did
C14_OneBlockPerGroup ==
    \A c \in Calls :
        call[c].kind = "batch" =>
            \A g \in 1..Len(call[c].groups) :
                LET group == call[c].groups[g]
                    n == Len(group.statements)
                IN group.status = "ok" =>
                       /\ Acquisitions(<<c, g>>) = 1
                       /\ \A i \in 1..n, j \in 1..n :
                              i < j => group.statements[i].id[2] < group.statements[j].id[2]
                       /\ Len(files[group.path]) >= group.sizeBefore + 2 * n
                       /\ SubSeq(files[group.path], group.sizeBefore + 1,
                                 group.sizeBefore + 2 * n) = LinesOf(group.statements)

\* C14 witness: a group of two records was written behind the torn line another
\* call's failed write left in the shard
C14_Witness ==
    \E c \in Calls, d \in Calls :
        /\ call[c].kind = "batch"
        /\ call[c].groups[1].status = "ok"
        /\ Len(call[c].groups[1].statements) = 2
        /\ call[c].groups[1].sizeBefore = 1
        /\ call[d].pc = "done"
        /\ call[d].groups[1].status = "failed"
        /\ call[d].groups[1].path = call[c].groups[1].path

\* ------------------------------------------ properties: the date partition
\* the date partition appendStatement files an instant under
DateOf(t) == <<getDateDirectory(t), StripExtension(getDateFilename(t))>>

\* C15: every record of a batch goes to the shard of the date appendStatement
\* would file that record under, whatever the timestamps and the timezone
C15_PartitionByOwnDate ==
    \A c \in Calls :
        call[c].kind = "batch" =>
            \A g \in 1..Len(call[c].groups) :
                LET group == call[c].groups[g]
                IN group.path # NoPath =>
                       \A i \in 1..Len(group.statements) :
                           group.statements[i].timestamp # NoTimestamp =>
                               ShardDate(group.path) =
                                   DateOf(group.statements[i].timestamp)

\* ------------------------------------------- properties: the days visited
\* the day of the month a shard belongs to
ShardDay(p) == parseInt(ShardDate(p)[2])

\* the scan yielded a record of this shard
YieldedFrom(p) ==
    \E i \in 1..Len(scan.out), k \in 1..Len(readStatements(p)) :
        scan.out[i] = readStatements(p)[k]

\* C16: a scan reads shards day by day in ascending order and each once, reads
\* only shards of the local days from start's to end's and misses none of them
\* that carries an index of up to three digits, yields nothing out of a shard
\* of another day, and reads nothing when end's day is before start's
C16_DaysVisited ==
    scan # NoScan =>
        /\ \A i \in 1..Len(scan.shards), j \in 1..Len(scan.shards) :
               i < j => /\ ShardDay(scan.shards[i]) <= ShardDay(scan.shards[j])
                        /\ scan.shards[i] # scan.shards[j]
        /\ \A p \in Range(scan.shards) :
               /\ p \in DOMAIN files
               /\ getDate(scan.start) <= ShardDay(p)
               /\ ShardDay(p) <= getDate(scan.end)
        /\ \A p \in DOMAIN files :
               (/\ ShardIndex(p) <= LastPadded
                /\ getDate(scan.start) <= ShardDay(p)
                /\ ShardDay(p) <= getDate(scan.end)) => p \in Range(scan.shards)
        /\ \A p \in DOMAIN files : YieldedFrom(p) => p \in Range(scan.shards)
        /\ getDate(scan.end) < getDate(scan.start) => scan.shards = << >>

\* C16 witness: the scan yielded a record of a day in its range and left out a
\* record whose timestamp is in the range but whose shard is of a later day
C16_Witness ==
    /\ scan # NoScan
    /\ scan.out # << >>
    /\ \E p \in DOMAIN files :
           /\ ShardDay(p) > getDate(scan.end)
           /\ \E k \in 1..Len(readStatements(p)) :
                  InRange(readStatements(p)[k].timestamp)

\* C17: the scan yields every record without a timestamp field that a shard it
\* read holds, once, whatever start and end are
C17_UntimedAlwaysYielded ==
    scan # NoScan =>
        \A p \in Range(scan.shards) :
            \A k \in 1..Len(readStatements(p)) :
                readStatements(p)[k].timestamp = NoTimestamp =>
                    TimesYielded(readStatements(p)[k]) = 1

\* C17 witness: start is later than end on the same day; the scan yielded the
\* record without a timestamp and no other record of the shards it read
C17_Witness ==
    /\ scan # NoScan
    /\ scan.start > scan.end
    /\ Len(scan.out) = 1
    /\ scan.out[1].timestamp = NoTimestamp
    /\ \E p \in Range(scan.shards) :
           \E k \in 1..Len(readStatements(p)) :
               readStatements(p)[k].timestamp # NoTimestamp

\* ------------------------------------------- properties: reading a shard
\* the positions of the JSON texts that stand alone on their line
WholeLines(content) ==
    SelectSeq([i \in 1..Len(content) |-> i],
              LAMBDA i : /\ content[i][1] = "json"
                         /\ i = 1 \/ content[i - 1] = NL
                         /\ i = Len(content) \/ content[i + 1] = NL)

\* C18: readStatements returns nothing for a path that does not exist, and for
\* a shard exactly the records of its well-formed lines, in line order, every
\* other line dropped; a scan of a store without the month directory reads and
\* yields nothing
C18_ReadDropsBadLines ==
    /\ \A t \in Instants, i \in 0..NumCalls :
           getFilePath(t, i) \notin DOMAIN files => readStatements(getFilePath(t, i)) = << >>
    /\ \A p \in DOMAIN files :
           LET at == WholeLines(files[p])
           IN readStatements(p) =
                  [k \in 1..Len(at) |-> [id |-> files[p][at[k]][2],
                                         timestamp |-> files[p][at[k]][3]]]
    /\ (scan # NoScan /\ dirs = {}) => (scan.shards = << >> /\ scan.out = << >>)

\* C18 witness: the scan read a shard in which a line holds two JSON texts, and
\* yielded the record of a well-formed line of that shard
C18_Witness ==
    /\ scan # NoScan
    /\ \E p \in Range(scan.shards) :
           /\ \E i \in 1..(Len(files[p]) - 1) :
                  files[p][i][1] = "json" /\ files[p][i + 1][1] = "json"
           /\ Len(readStatements(p)) >= 1
           /\ YieldedFrom(p)

\* ------------------------------------------- properties: the statistics
\* C19: getDateStats reports every shard of the date with its size, and a
\* totalSize that is the sum of the sizes of the date's shards; a date without
\* a shard yields no file and a total of 0
C19_StatsReportEveryShard ==
    stats # NoStats =>
        LET shards == {p \in DOMAIN files : ShardDate(p) = DateOf(stats.date)}
        IN /\ stats.files = {<<p, Len(files[p])>> : p \in shards}
           /\ stats.totalSize = SizeOf(shards)
           /\ shards = {} => (stats.files = {} /\ stats.totalSize = 0)

\* --------------------------------------------- properties: the GCS backend
\* the groups whose file.save succeeded
SavedGroups ==
    {cg \in Calls \X (1..MaxBatch) :
        /\ cg[2] <= Len(call[cg[1]].groups)
        /\ call[cg[1]].groups[cg[2]].status = "ok"}

\* C20: on the GCS backend every append that succeeded created one new object
\* under its date's prefix, the objects created earlier hold what was saved in
\* them, and no lock is taken
C20_ObjectsNeverModified ==
    /\ \A cg \in SavedGroups :
           LET group == call[cg[1]].groups[cg[2]]
           IN /\ group.path \in DOMAIN bucket
              /\ group.path[1] = getDatePrefix(group.date)
              /\ bucket[group.path] = Block(group.statements)
    /\ Cardinality(DOMAIN bucket) = Cardinality(SavedGroups)
    /\ writeLocks = {}

\* C21: on the GCS backend, when the save of one group completed before the name
\* of another group of the same date prefix was generated, the first object's
\* name sorts before the second's, and a scan yields the first group's records
\* before the second's
C21_NameOrderIsWriteOrder ==
    \A i \in 1..Len(arrival), j \in 1..Len(arrival) :
        LET A == GroupOf(arrival[i])
            B == GroupOf(arrival[j])
        IN (i < j /\ A.path[1] = B.path[1] /\ B.openedAfter >= i) =>
               /\ localeCompareLess(A.path, B.path)
               /\ \A m \in 1..Len(scan.out), n \in 1..Len(scan.out) :
                      (/\ scan.out[m] \in Range(A.statements)
                       /\ scan.out[n] \in Range(B.statements)) => m < n

\* ------------------------------------------ properties: the date of a record
\* C22: appendStatement files the record under the date argument when one is
\* given, else under the record's timestamp when it has one, else under the
\* current time; the path it resolves is a shard of that date
C22_DatePrecedence ==
    \A c \in Calls :
        call[c].kind = "single" =>
            LET group == call[c].groups[1]
                statement == group.statements[1]
            IN /\ group.date = IF call[c].dateArg # Undefined THEN call[c].dateArg
                               ELSE IF statement.timestamp # NoTimestamp
                                    THEN statement.timestamp
                                    ELSE call[c].clock
               /\ group.path # NoPath => ShardDate(group.path) = DateOf(group.date)

\* C22 witness: two appends were written: one with a date argument of another
\* day than its record's timestamp, filed under the argument's day; one with
\* neither argument nor timestamp, filed under the day of the current time
C22_Witness ==
    /\ \E c \in Calls :
           LET group == call[c].groups[1]
           IN /\ call[c].kind = "single" /\ group.status = "ok"
              /\ call[c].dateArg # Undefined
              /\ group.statements[1].timestamp # NoTimestamp
              /\ DateOf(group.statements[1].timestamp) # DateOf(call[c].dateArg)
              /\ ShardDate(group.path) = DateOf(call[c].dateArg)
    /\ \E c \in Calls :
           LET group == call[c].groups[1]
           IN /\ call[c].kind = "single" /\ group.status = "ok"
              /\ call[c].dateArg = Undefined
              /\ group.statements[1].timestamp = NoTimestamp
              /\ call[c].clock # Undefined
              /\ ShardDate(group.path) = DateOf(call[c].clock)

RECURSIVE StatementsIn(_, _)
\* how many statements the groups of the given statuses hold
StatementsIn(groups, statuses) ==
    IF Len(groups) = 0 THEN 0
    ELSE (IF Head(groups).status \in statuses THEN Len(Head(groups).statements) ELSE 0)
         + StatementsIn(Tail(groups), statuses)

\* the call is an appendStatements that returned its result
Returned(c) ==
    /\ call[c].kind = "batch"
    /\ call[c].pc = "done"
    /\ \A g \in 1..Len(call[c].groups) : call[c].groups[g].status # "threw"

\* C24: a result appendStatements returns has total = the number of input
\* records and success + failed = total: success counts the records of the
\* groups written, failed those of the groups that failed, with one error
\* entry for each failed group
C24_ResultCounts ==
    \A c \in Calls :
        Returned(c) =>
            LET result == call[c].result
                groups == call[c].groups
            IN /\ result.total = StatementsIn(groups, {"ok", "failed"})
               /\ result.success + result.failed = result.total
               /\ result.success = StatementsIn(groups, {"ok"})
               /\ result.failed = StatementsIn(groups, {"failed"})
               /\ Len(result.errors) =
                      Cardinality({g \in 1..Len(groups) : groups[g].status = "failed"})

\* C24 witness: an appendStatements call returned after one of its two date
\* groups was written and the other failed, and another returned after writing
\* one group of two records
C24_Witness ==
    /\ \E c \in Calls :
           /\ Returned(c)
           /\ Len(call[c].groups) = 2
           /\ call[c].result.success = 1
           /\ call[c].result.failed = 1
    /\ \E c \in Calls :
           /\ Returned(c)
           /\ Len(call[c].groups) = 1
           /\ call[c].result.success = 2

\* ---------------------------------------------- properties: no deadlock
\* the call that set the entry of a path in the lock table
HolderOf(p) == lockLog[p][Len(lockLog[p])][1]

\* the locks a call holds
HeldBy(c) == {p \in writeLocks : HolderOf(p) = c}

\* C25: a call holds at most one lock, and none while it waits for one; the lock
\* a call waits for is held by a call that is inside its appendFile; so whenever
\* appends are in flight, one of them is not blocked by a lock
C25_NoHoldAndWait ==
    /\ \A c \in Calls :
           /\ Cardinality(HeldBy(c)) <= 1
           /\ call[c].pc = "wait" => HeldBy(c) = {}
           /\ (call[c].pc = "wait" /\ ~lockFree(writeLocks, call[c].filePath)) =>
                  /\ HolderOf(call[c].filePath) # c
                  /\ Holding(HolderOf(call[c].filePath))
    /\ (\E c \in Calls : InFlight(c)) =>
           \E c \in Calls :
               /\ InFlight(c)
               /\ call[c].pc = "wait" => lockFree(writeLocks, call[c].filePath)

\* C25 witness: an appendStatements call holds the lock of its second date
\* group, having released that of its first, while the other call waits for
\* the lock it holds
C25_Witness ==
    \E c \in Calls, d \in Calls :
        /\ call[c].kind = "batch"
        /\ call[c].g = 2
        /\ Holding(c)
        /\ call[c].groups[1].path # call[c].filePath
        /\ call[c].groups[1].path \notin writeLocks
        /\ HeldBy(c) = {call[c].filePath}
        /\ call[d].pc = "wait"
        /\ call[d].filePath = call[c].filePath

\* ------------------------------------------------ properties: termination
\* the call has returned a result object
ReturnedResult(c) ==
    /\ call[c].pc = "done"
    /\ \A g \in 1..Len(call[c].groups) : call[c].groups[g].status # "threw"

\* C26: when every I/O step and every timer completes, each append issued
\* eventually returns a result, and once all have returned the lock table is empty
C26_EveryAppendReturns ==
    /\ \A c \in Writers : (InFlight(c) ~> ReturnedResult(c))
    /\ [](Quiescent => writeLocks = {})

\* --------------------------------------------- properties: shard names
\* C27: every path getWriteFilePath returned names a file that the pattern of
\* its date matches, so that the listing of getCurrentRotationIndex, of the
\* scan and of getDateStats finds the shard
C27_ResolvedPathsMatchPattern ==
    \A c \in Calls : \A g \in 1..Len(call[c].groups) :
        LET group == call[c].groups[g]
        IN group.path # NoPath =>
               /\ PatternTest(group.path[2], StripExtension(getDateFilename(group.date)))
               /\ group.status = "ok" =>
                      getCurrentRotationIndex(group.date) >= ShardIndex(group.path)

\* ------------------------------------------------ properties: the route
\* the statements a call handed to the storage
Handed(c) == UNION {Range(call[c].groups[g].statements) : g \in 1..Len(call[c].groups)}

\* the ids of the statements that can be read back from the files
StoredIds ==
    UNION {{readStatements(p)[j].id : j \in 1..Len(readStatements(p))} : p \in DOMAIN files}

\* C28: a request reaches the storage only if it holds between 1 and
\* MaxStatements statements that all pass validateStatement; a request with a
\* statement that does not pass is answered 400 and none of its statements is
\* stored
C28_AllOrNothing ==
    \A c \in Calls :
        LET cs == call[c]
        IN /\ cs.kind \in {"single", "batch"} =>
                  /\ Cardinality(Handed(c)) \in 1..MaxStatements
                  /\ \A st \in Handed(c) : validateStatement(st) = "valid"
           /\ cs.kind = "rejected" =>
                  /\ \A id \in StoredIds : id[1] # c
                  /\ (/\ cs.body.shape # "other"
                      /\ Len(cs.body.statements) \in 1..MaxStatements
                      /\ \E i \in 1..Len(cs.body.statements) :
                             validateStatement(cs.body.statements[i]) # "valid")
                         => res_status(c) = 400

\* C29: the response is 204 only when every statement of the request can be
\* read back, 207 only when some but not all can, and 500 only when none can
C29_StatusFollowsStorage ==
    \A c \in Calls :
        (call[c].pc = "done" /\ call[c].kind \in {"single", "batch"}) =>
            LET all == {st.id : st \in Handed(c)}
                stored == all \cap StoredIds
            IN /\ res_status(c) = 204 => stored = all
               /\ res_status(c) = 207 => (stored # {} /\ stored # all)
               /\ res_status(c) = 500 => stored = {}

\* --------------------------------------------- properties: GET /statements
isTruncatedLine(line) == "_truncated" \in DOMAIN line
isStatementLine(line) == ~isTruncatedLine(line)
\* the positions among the first k yields whose statement passes the actorId filter
Matching(k) == {i \in 1..k : passesFilter(res.actorId, res.source[i])}
matchesQuery(statement) == passesFilter(res.actorId, statement)
Min(a, b) == IF a <= b THEN a ELSE b

\* C30: a streamed response holds at most maxResults statement lines, which are
\* the first statements of the scan that pass the actorId filter, in order; a
\* {_truncated: true, count: maxResults} line is written only as the last line,
\* once, and a finished response has it exactly when one more matching statement
\* follows the maxResults-th; the route pulls that statement and nothing after it.
C30_TruncatedAtLimit ==
    res.status = 200 =>
        LET written == SelectSeq(res.lines, isStatementLine)
            pulled  == Matching(res.pulled)
        IN  /\ Len(written) <= maxResults
            /\ res.count = Len(written)
            /\ written = SubSeq(SelectSeq(res.source, matchesQuery), 1,
                                Min(maxResults, Cardinality(pulled)))
            /\ \A i \in 1..Len(res.lines) :
                   isTruncatedLine(res.lines[i]) =>
                       /\ i = Len(res.lines)
                       /\ res.lines[i] = [_truncated |-> TRUE, count |-> maxResults]
                       /\ res.pc = "done"
                       /\ Cardinality(pulled) = maxResults + 1
                       /\ res.pulled \in pulled
            /\ Cardinality(pulled) <= maxResults + 1
            /\ res.pc = "done" =>
                   ((\E i \in 1..Len(res.lines) : isTruncatedLine(res.lines[i]))
                        <=> Cardinality(Matching(Len(res.source))) > maxResults)

\* C30 witness: a filtered response ended with the truncation line after
\* maxResults statements, having skipped a statement of another actor and left
\* part of the scan unpulled.
C30_Witness ==
    /\ res.pc = "done"
    /\ res.status = 200
    /\ res.actorId # NoActor
    /\ res.count = maxResults
    /\ res.lines # << >>
    /\ isTruncatedLine(res.lines[Len(res.lines)])
    /\ \E i \in 1..res.pulled : ~passesFilter(res.actorId, res.source[i])
    /\ res.pulled < Len(res.source)

\* --------------------------------------------- properties: guardInlineCode
\* the sum of the byte lengths of the content strings of files[]
RECURSIVE contentBytes(_)
contentBytes(fs) ==
    IF Len(fs) = 0 THEN 0
    ELSE (IF Head(fs).type = "string" THEN Len(Buffer_from(Head(fs).content)) ELSE 0)
             + contentBytes(Tail(fs))

\* C31: when guardInlineCode truncates an oversized code object, the content
\* strings of the files of the object it returns add up to at most
\* truncateKeepBytes bytes.
C31_ContentWithinKeepBytes ==
    (guard.calls > 0 /\ guard.result.ok /\ guard.result.truncated) =>
        contentBytes(guard.result.obj.files) <= cfg.truncateKeepBytes

====
